---- MODULE Spec2Model ----
(***************************************************************************)
(* FM-index exact pattern matching (src/src/bwt.py): the Burrows-Wheeler   *)
(* transform, the C-table, the O-table and the backward search generator.  *)
(*                                                                         *)
(* Python lists are modelled as TLA+ sequences: the list element l[i]      *)
(* (0-based) is the sequence element l[i+1].  Offsets, suffix-array        *)
(* entries, interval bounds and codes keep their 0-based Python values.    *)
(* Raw symbols are the integers 1..NSym, ordered as characters are.        *)
(***************************************************************************)
EXTENDS Integers, Sequences, FiniteSets, TLC

\* ---------------------------------------------------------------- bounds
NSym == 2
MaxLen == 4
MaxPat == 3
ConcLen == 3
ConcPat == 1
TabLen == 3
TabK == 3

Symbols == 1..NSym
Calls == {1, 2}

SeqsUpTo(S, n) == UNION {[1..m -> S] : m \in 0..n}

Range(s) == {s[i] : i \in 1..Len(s)}

\* ------------------------------------------------- Python list indexing
\* l[i] on a list of length n: the 1-based place of the element read, with
\* Python's wraparound of negative indices; 0 stands for IndexError.
PyIndex(n, i) ==
    IF 0 <= i /\ i < n THEN i + 1
    ELSE IF -n <= i /\ i < 0 THEN n + i + 1
    ELSE 0

\* ------------------------------------------ alphabet (external collaborator)
\* The alphabet of x: its distinct symbols in increasing order; the symbol
\* alpha[c] has code c, and code 0 is the sentinel.
Alphabet(x) ==
    LET S == Range(x)
    IN  CHOOSE s \in [1..Cardinality(S) -> S] :
            \A i, j \in 1..Cardinality(S) : i < j => s[i] < s[j]

AlphabetLen(alpha) == Len(alpha) + 1

AlphabetCode(alpha, a) == CHOOSE c \in 1..Len(alpha) : alpha[c] = a

\* alpha.map(p_): the codes of p_, or KeyError when a symbol is unmapped.
AlphabetMap(alpha, p_) ==
    IF \A i \in 1..Len(p_) : p_[i] \in Range(alpha)
    THEN <<"ok", [i \in 1..Len(p_) |-> AlphabetCode(alpha, p_[i])]>>
    ELSE <<"KeyError", <<>>>>

\* Alphabet.mapped_string_with_sentinel(x): x mapped, the sentinel appended.
MappedStringWithSentinel(x) ==
    Append([i \in 1..Len(x) |-> AlphabetCode(Alphabet(x), x[i])], 0)

\* -------------------------------------- suffix array (external collaborator)
\* The suffix of s at offset i is smaller than the one at offset j.
RECURSIVE SuffixLess(_, _, _)
SuffixLess(s, i, j) ==
    IF i >= Len(s) THEN j < Len(s)
    ELSE IF j >= Len(s) THEN FALSE
    ELSE IF s[i + 1] # s[j + 1] THEN s[i + 1] < s[j + 1]
    ELSE SuffixLess(s, i + 1, j + 1)

\* sais_alphabet(x_, alpha): the offsets of x_ in ascending suffix order.
SaisAlphabet(s) ==
    [r \in 1..Len(s) |->
        CHOOSE i \in 0..(Len(s) - 1) :
            Cardinality({j \in 0..(Len(s) - 1) : j # i /\ SuffixLess(s, j, i)}) = r - 1]

\* ------------------------------------------------ burrows_wheeler_transform
\* x_[j] in place of x_[j - 1]: the symbol at the suffix, not before it.
BwtSymbolAtSuffix(x_, j) == x_[PyIndex(Len(x_), j)]

\* x_[j - 1] for an entry j of the suffix array.
BwtSymbol(x_, j) == x_[PyIndex(Len(x_), j - 1)]

BurrowsWheelerTransform(x) ==
    LET x_ == MappedStringWithSentinel(x)
        sa_ == SaisAlphabet(x_)
    IN  [bwt |-> [r \in 1..Len(sa_) |-> BwtSymbol(x_, sa_[r])],
         alpha |-> Alphabet(x),
         sa |-> sa_]

\* ------------------------------------------------------------------ CTable
\* for a in bwt: counts[a] += 1
RECURSIVE CountLoop(_, _, _)
CountLoop(bwt_, i, counts) ==
    IF i > Len(bwt_) THEN counts
    ELSE CountLoop(bwt_, i + 1, [counts EXCEPT ![bwt_[i] + 1] = @ + 1])

\* The cumulative sum taken after adding the count: an inclusive prefix sum.
RECURSIVE CumSumInclusive(_, _, _)
CumSumInclusive(counts, a, n) ==
    IF a > Len(counts) THEN counts
    ELSE CumSumInclusive([counts EXCEPT ![a] = n + counts[a]], a + 1, n + counts[a])

\* for a, count in enumerate(counts): counts[a] = n; n += count
RECURSIVE CumSumLoop(_, _, _)
CumSumLoop(counts, a, n) ==
    IF a > Len(counts) THEN counts
    ELSE CumSumLoop([counts EXCEPT ![a] = n], a + 1, n + counts[a])

\* CTable.__init__: the list _cumsum.
CTableInit(bwt_, asize) ==
    CumSumLoop(CountLoop(bwt_, 1, [a \in 1..asize |-> 0]), 1, 0)

\* CTable.__getitem__: self._cumsum[a].
CTableGet(cumsum, a) ==
    LET k == PyIndex(Len(cumsum), a)
    IN  IF k = 0 THEN <<"IndexError", 0>> ELSE <<"ok", cumsum[k]>>

\* ------------------------------------------------------------------ OTable
\* Columns 2..n of the table, filled left to right:
\* for i in range(2, len(bwt) + 1): b = bwt[i - 1]
\*     for a in range(1, asize): tbl[a-1][i-1] = tbl[a-1][i-2] + (a == b)
RECURSIVE OTableFill(_, _, _, _)
OTableFill(tbl, bwt_, asize, i) ==
    IF i > Len(bwt_) THEN tbl
    ELSE OTableFill(
            [a \in 1..(asize - 1) |->
                [tbl[a] EXCEPT ![i] = tbl[a][i - 1] + (IF a = bwt_[i] THEN 1 ELSE 0)]],
            bwt_, asize, i + 1)

\* OTable.__init__: the list of rows _tbl, or the error raised on the way.
OTableInit(bwt_, asize) ==
    LET nrow == asize - 1
        ncol == Len(bwt_)
        zero == [a \in 1..nrow |-> [c \in 1..ncol |-> 0]]
        r    == IF ncol = 0 THEN 0 ELSE PyIndex(nrow, bwt_[1] - 1)
    IN  IF ncol = 0 \/ r = 0 THEN <<"IndexError", <<>>>>
        ELSE <<"ok", OTableFill([zero EXCEPT ![r][1] = 1], bwt_, asize, 2)>>

\* The lookup reading column i in place of column i - 1.
OTableGetNextColumn(tbl, a, i) ==
    IF a <= 0 THEN <<"AssertionError", 0>>
    ELSE IF i = 0 THEN <<"ok", 0>>
    ELSE LET r == PyIndex(Len(tbl), a - 1)
             c == IF r = 0 THEN 0 ELSE PyIndex(Len(tbl[r]), i)
         IN  IF r = 0 \/ c = 0 THEN <<"IndexError", 0>> ELSE <<"ok", tbl[r][c]>>

\* OTable.__getitem__: assert a > 0; 0 if i == 0 else self._tbl[a - 1][i - 1].
OTableGet(tbl, a, i) ==
    IF a <= 0 THEN <<"AssertionError", 0>>
    ELSE IF i = 0 THEN <<"ok", 0>>
    ELSE LET r == PyIndex(Len(tbl), a - 1)
             c == IF r = 0 THEN 0 ELSE PyIndex(Len(tbl[r]), i - 1)
         IN  IF r = 0 \/ c = 0 THEN <<"IndexError", 0>> ELSE <<"ok", tbl[r][c]>>

\* ------------------------------------------------------------------- state
VARIABLES
    x,        \* the sequence handed to preprocess_exact
    build,    \* "none", "ok", or the error preprocess_exact raised
    bwt,      \* the transformed sequence burrows_wheeler_transform returned
    alpha,    \* FMIndexTables.alpha
    sa,       \* FMIndexTables.sa
    ctab,     \* FMIndexTables.ctab (_cumsum)
    otab,     \* FMIndexTables.otab (_tbl)
    pc,       \* per search call: where its generator stands
    pat,      \* per search call: the pattern p_
    p,        \* per search call: the mapped pattern
    rem,      \* per search call: the symbols of reversed(p) not yet consumed
    left,     \* per search call: left
    right,    \* per search call: right
    idx,      \* per search call: i of range(left, right)
    out,      \* per search call: the offsets yielded so far
    lookups,  \* per search call: the table lookups made so far
    ts,       \* a code sequence handed to the table constructors
    tk,       \* the alphabet size handed to the table constructors
    tct,      \* the CTable built from (ts, tk), <<>> before
    tot,      \* the outcome of OTable(ts, tk), <<"none", <<>>>> before
    tq        \* the last table query and its outcome

bundle == <<alpha, sa, ctab, otab>>
callVars == <<pc, pat, p, rem, left, right, idx, out, lookups>>
indexVars == <<x, build, bwt, alpha, sa, ctab, otab>>
tableVars == <<ts, tk, tct, tot, tq>>
vars == <<x, build, bwt, alpha, sa, ctab, otab,
          pc, pat, p, rem, left, right, idx, out, lookups,
          ts, tk, tct, tot, tq>>

NoQuery == [kind |-> "none", a |-> 0, i |-> 0, res |-> <<"none", 0>>]

InitIndex(maxlen) ==
    /\ x \in SeqsUpTo(Symbols, maxlen)
    /\ build = "none"
    /\ bwt = <<>>
    /\ alpha = <<>>
    /\ sa = <<>>
    /\ ctab = <<>>
    /\ otab = <<>>

InitCalls ==
    /\ pc = [c \in Calls |-> "idle"]
    /\ pat = [c \in Calls |-> <<>>]
    /\ p = [c \in Calls |-> <<>>]
    /\ rem = [c \in Calls |-> 0]
    /\ left = [c \in Calls |-> 0]
    /\ right = [c \in Calls |-> 0]
    /\ idx = [c \in Calls |-> 0]
    /\ out = [c \in Calls |-> <<>>]
    /\ lookups = [c \in Calls |-> 0]

InitTables ==
    /\ ts = <<>>
    /\ tk = 1
    /\ tct = <<>>
    /\ tot = <<"none", <<>>>>
    /\ tq = NoQuery

\* --------------------------------------------------------- preprocess_exact
Preprocess ==
    /\ build = "none"
    /\ LET t  == BurrowsWheelerTransform(x)
           ct == CTableInit(t.bwt, AlphabetLen(t.alpha))
           ot == OTableInit(t.bwt, AlphabetLen(t.alpha))
       IN  /\ bwt' = t.bwt
           /\ IF ot[1] = "ok"
              THEN /\ build' = "ok"
                   /\ alpha' = t.alpha
                   /\ sa' = t.sa
                   /\ ctab' = ct
                   /\ otab' = ot[2]
              ELSE /\ build' = ot[1]
                   /\ UNCHANGED <<alpha, sa, ctab, otab>>
    /\ UNCHANGED <<x, callVars, tableVars>>

\* ------------------------------------------------------------------ search
\* search(p_): the generator is created; none of its body has run.
Call(c, q) ==
    /\ build = "ok"
    /\ pc[c] = "idle"
    /\ pc' = [pc EXCEPT ![c] = "created"]
    /\ pat' = [pat EXCEPT ![c] = q]
    /\ UNCHANGED <<indexVars, p, rem, left, right, idx, out, lookups, tableVars>>

\* An unmapped symbol taken for the sentinel instead of ending the search.
MapUnknownAsSentinel(c) ==
    /\ pc[c] = "created"
    /\ p' = [p EXCEPT ![c] =
                [i \in 1..Len(pat[c]) |->
                    IF pat[c][i] \in Range(alpha)
                    THEN AlphabetCode(alpha, pat[c][i]) ELSE 0]]
    /\ rem' = [rem EXCEPT ![c] = Len(pat[c])]
    /\ left' = [left EXCEPT ![c] = 0]
    /\ right' = [right EXCEPT ![c] = Len(sa)]
    /\ pc' = [pc EXCEPT ![c] = "loop"]
    /\ UNCHANGED <<indexVars, pat, idx, out, lookups, tableVars>>

\* The interval a search starts from, one slot short.
InitialIntervalShort(sa_) == <<0, Len(sa_) - 1>>

\* left, right = 0, len(sa)
InitialInterval(sa_) == <<0, Len(sa_)>>

\* p = alpha.map(p_), the KeyError caught; left, right = 0, len(sa).
Map(c) ==
    /\ pc[c] = "created"
    /\ LET m == AlphabetMap(alpha, pat[c])
       IN  IF m[1] = "ok"
           THEN /\ p' = [p EXCEPT ![c] = m[2]]
                /\ rem' = [rem EXCEPT ![c] = Len(m[2])]
                /\ left' = [left EXCEPT ![c] = InitialInterval(sa)[1]]
                /\ right' = [right EXCEPT ![c] = InitialInterval(sa)[2]]
                /\ pc' = [pc EXCEPT ![c] = "loop"]
           ELSE /\ pc' = [pc EXCEPT ![c] = "done"]
                /\ UNCHANGED <<p, rem, left, right>>
    /\ UNCHANGED <<indexVars, pat, idx, out, lookups, tableVars>>

\* The bound taken from the rank alone, the C-table offset left out.
NarrowNoCTable(ct, ot, a, pos) ==
    LET ov == OTableGet(ot, a, pos)
    IN  IF ov[1] = "ok" THEN <<"ok", ov[2]>> ELSE <<"raised", 0>>

\* ctab[a] + otab[a, pos]
Narrow(ct, ot, a, pos) ==
    LET cv == CTableGet(ct, a)
        ov == OTableGet(ot, a, pos)
    IN  IF cv[1] = "ok" /\ ov[1] = "ok" THEN <<"ok", cv[2] + ov[2]>>
        ELSE <<"raised", 0>>

\* One pass of the loop taking the pattern from its first symbol on.
StepForward(c) ==
    /\ pc[c] = "loop"
    /\ rem[c] > 0
    /\ LET a == p[c][Len(p[c]) - rem[c] + 1]
           l == NarrowNoCTable(ctab, otab, a, left[c])
           r == NarrowNoCTable(ctab, otab, a, right[c])
           cv == CTableGet(ctab, a)
       IN  IF l[1] = "ok" /\ r[1] = "ok" /\ cv[1] = "ok"
           THEN /\ left' = [left EXCEPT ![c] = cv[2] + l[2]]
                /\ right' = [right EXCEPT ![c] = cv[2] + r[2]]
                /\ rem' = [rem EXCEPT ![c] = @ - 1]
                /\ pc' = [pc EXCEPT ![c] =
                            IF cv[2] + l[2] >= cv[2] + r[2] THEN "done" ELSE "loop"]
           ELSE /\ pc' = [pc EXCEPT ![c] = "raised"]
                /\ UNCHANGED <<left, right, rem>>
    /\ lookups' = [lookups EXCEPT ![c] = @ + 4]
    /\ UNCHANGED <<indexVars, pat, p, idx, out, tableVars>>

\* One pass of "for a in reversed(p)".
Step(c) ==
    /\ pc[c] = "loop"
    /\ rem[c] > 0
    /\ LET a == p[c][rem[c]]
           l == Narrow(ctab, otab, a, left[c])
           r == Narrow(ctab, otab, a, right[c])
       IN  IF l[1] = "ok" /\ r[1] = "ok"
           THEN /\ left' = [left EXCEPT ![c] = l[2]]
                /\ right' = [right EXCEPT ![c] = r[2]]
                /\ rem' = [rem EXCEPT ![c] = @ - 1]
                /\ pc' = [pc EXCEPT ![c] = IF l[2] >= r[2] THEN "done" ELSE "loop"]
           ELSE /\ pc' = [pc EXCEPT ![c] = "raised"]
                /\ UNCHANGED <<left, right, rem>>
    /\ lookups' = [lookups EXCEPT ![c] = @ + 4]
    /\ UNCHANGED <<indexVars, pat, p, idx, out, tableVars>>

\* The pattern is consumed: for i in range(left, right) starts.
Report(c) ==
    /\ pc[c] = "loop"
    /\ rem[c] = 0
    /\ idx' = [idx EXCEPT ![c] = left[c]]
    /\ pc' = [pc EXCEPT ![c] = "emit"]
    /\ UNCHANGED <<indexVars, pat, p, rem, left, right, out, lookups, tableVars>>

\* The yielded entry also taken out of the suffix array.
EmitPop(c) ==
    /\ pc[c] = "emit"
    /\ idx[c] < right[c]
    /\ out' = [out EXCEPT ![c] = Append(@, sa[idx[c] + 1])]
    /\ idx' = [idx EXCEPT ![c] = @ + 1]
    /\ sa' = [sa EXCEPT ![idx[c] + 1] = 0]
    /\ UNCHANGED <<x, build, bwt, alpha, ctab, otab,
                   pc, pat, p, rem, left, right, lookups, tableVars>>

\* The interval walked from its right end down.
EmitDescending(c) ==
    /\ pc[c] = "emit"
    /\ idx[c] < right[c]
    /\ out' = [out EXCEPT ![c] = Append(@, sa[right[c] - (idx[c] - left[c])])]
    /\ idx' = [idx EXCEPT ![c] = @ + 1]
    /\ UNCHANGED <<indexVars, pc, pat, p, rem, left, right, lookups, tableVars>>

\* yield sa[i]: one offset per request of the consumer.
Emit(c) ==
    /\ pc[c] = "emit"
    /\ idx[c] < right[c]
    /\ out' = [out EXCEPT ![c] = Append(@, sa[PyIndex(Len(sa), idx[c])])]
    /\ idx' = [idx EXCEPT ![c] = @ + 1]
    /\ UNCHANGED <<indexVars, pc, pat, p, rem, left, right, lookups, tableVars>>

\* range(left, right) is exhausted: the generator returns.
Return(c) ==
    /\ pc[c] = "emit"
    /\ idx[c] >= right[c]
    /\ pc' = [pc EXCEPT ![c] = "done"]
    /\ UNCHANGED <<indexVars, pat, p, rem, left, right, idx, out, lookups, tableVars>>

\* The interval the loop of search ends with, run on its own from
\* (left, right) over the first k symbols of p.
RECURSIVE Backward(_, _, _, _, _, _)
Backward(ct, ot, q, k, l, r) ==
    IF k = 0 THEN <<l, r>>
    ELSE LET l2 == Narrow(ct, ot, q[k], l)[2]
             r2 == Narrow(ct, ot, q[k], r)[2]
         IN  IF l2 >= r2 THEN <<l2, l2>> ELSE Backward(ct, ot, q, k - 1, l2, r2)

\* list(search(p_)) of one call run alone on the tables.
SoloSearch(al, sa_, ct, ot, q) ==
    LET m == AlphabetMap(al, q)
    IN  IF m[1] # "ok" THEN <<>>
        ELSE LET iv == Backward(ct, ot, m[2], Len(m[2]), 0, Len(sa_))
             IN  [k \in 1..(iv[2] - iv[1]) |-> sa_[iv[1] + k]]

\* ------------------------------------------------- one search on one index
Init ==
    /\ InitIndex(MaxLen)
    /\ InitCalls
    /\ InitTables

Next ==
    \/ Preprocess
    \/ \E q \in SeqsUpTo(Symbols, MaxPat) : Call(1, q)
    \/ Map(1)
    \/ Step(1)
    \/ Report(1)
    \/ Emit(1)
    \/ Return(1)

Spec == Init /\ [][Next]_vars

\* ------------------------------------ concurrent searches on a shared index
InitConc ==
    /\ InitIndex(ConcLen)
    /\ InitCalls
    /\ InitTables

NextConc ==
    \/ Preprocess
    \/ \E c \in Calls : \E q \in SeqsUpTo(Symbols, ConcPat) : Call(c, q)
    \/ \E c \in Calls : Map(c)
    \/ \E c \in Calls : Step(c)
    \/ \E c \in Calls : Report(c)
    \/ \E c \in Calls : Emit(c)
    \/ \E c \in Calls : Return(c)

SpecConc == InitConc /\ [][NextConc]_vars

\* ---------------------------------------- the tables on any code sequence
InitTab ==
    /\ x = <<>>
    /\ build = "none"
    /\ bwt = <<>>
    /\ alpha = <<>>
    /\ sa = <<>>
    /\ ctab = <<>>
    /\ otab = <<>>
    /\ InitCalls
    /\ tk \in 1..TabK
    /\ ts \in SeqsUpTo(0..(tk - 1), TabLen)
    /\ tct = <<>>
    /\ tot = <<"none", <<>>>>
    /\ tq = NoQuery

\* ctab = CTable(ts, tk)
BuildCTable ==
    /\ tct = <<>>
    /\ tct' = CTableInit(ts, tk)
    /\ UNCHANGED <<indexVars, callVars, ts, tk, tot, tq>>

\* otab = OTable(ts, tk)
BuildOTable ==
    /\ tot[1] = "none"
    /\ tot' = OTableInit(ts, tk)
    /\ UNCHANGED <<indexVars, callVars, ts, tk, tct, tq>>

\* ctab[a]
QueryCTable(a) ==
    /\ tct # <<>>
    /\ tq' = [kind |-> "ctab", a |-> a, i |-> 0, res |-> CTableGet(tct, a)]
    /\ UNCHANGED <<indexVars, callVars, ts, tk, tct, tot>>

\* otab[a, i]
QueryOTable(a, i) ==
    /\ tot[1] = "ok"
    /\ tq' = [kind |-> "otab", a |-> a, i |-> i, res |-> OTableGet(tot[2], a, i)]
    /\ UNCHANGED <<indexVars, callVars, ts, tk, tct, tot>>

NextTab ==
    \/ BuildCTable
    \/ BuildOTable
    \/ \E a \in (-(tk + 1))..(tk + 1) : QueryCTable(a)
    \/ \E a \in 0..(tk - 1) : \E i \in 0..Len(ts) : QueryOTable(a, i)

SpecTab == InitTab /\ [][NextTab]_vars

\* ================================================================ claims
\* The offsets i of x with x[i : i + len(q)] == q.
Occurrences(s, q) ==
    {i \in 0..(Len(s) - 1) :
        /\ i + Len(q) <= Len(s)
        /\ \A k \in 1..Len(q) : s[i + k] = q[k]}

\* s[off:] starts with q.
StartsWith(s, off, q) ==
    /\ off + Len(q) <= Len(s)
    /\ \A k \in 1..Len(q) : s[off + k] = q[k]

IsPrefix(s, t) ==
    /\ Len(s) <= Len(t)
    /\ \A k \in 1..Len(s) : s[k] = t[k]

Mapped(c) == \A k \in 1..Len(pat[c]) : pat[c][k] \in Range(x)

Started(c) == pc[c] \notin {"idle", "created"}

\* C1: for a non-empty x and a non-empty pattern whose symbols all occur in
\* x, the search ends normally and the set of offsets it yielded is exactly
\* the set of offsets where the pattern occurs in x.
C1_ExactMatches ==
    \A c \in Calls :
        (Started(c) /\ Len(x) > 0 /\ Len(pat[c]) > 0 /\ Mapped(c)) =>
            /\ pc[c] # "raised"
            /\ pc[c] = "done" => Range(out[c]) = Occurrences(x, pat[c])

C1_Witness ==
    /\ pc[1] = "done"
    /\ Len(pat[1]) >= 2
    /\ pat[1][1] # pat[1][2]
    /\ Cardinality(Occurrences(x, pat[1])) >= 2
    /\ Range(out[1]) = Occurrences(x, pat[1])

\* C2 as stated: for every sequence x, empty or not, preprocessing gives a
\* searcher and a finished search of the empty pattern has yielded exactly
\* len(x) + 1 offsets.
C2_EverySequence ==
    build # "none" =>
        /\ build = "ok"
        /\ \A c \in Calls :
            (pc[c] = "done" /\ pat[c] = <<>>) => Len(out[c]) = Len(x) + 1

\* C2 as amended: for every non-empty sequence x, preprocessing gives a
\* searcher, and a finished search of the empty pattern has made no table
\* lookup and has yielded exactly len(x) + 1 offsets: the whole suffix
\* array, the sentinel slot's offset len(x) among them.
C2_EmptyPattern ==
    (build # "none" /\ Len(x) > 0) =>
        /\ build = "ok"
        /\ \A c \in Calls :
            (Started(c) /\ pat[c] = <<>>) =>
                /\ lookups[c] = 0
                /\ left[c] = 0
                /\ right[c] = Len(x) + 1
                /\ pc[c] = "done" =>
                    /\ Len(out[c]) = Len(x) + 1
                    /\ out[c] = sa
                    /\ Len(x) \in Range(out[c])

C2_Witness ==
    /\ pc[1] = "done"
    /\ pat[1] = <<>>
    /\ Len(x) >= 2
    /\ Len(out[1]) = Len(x) + 1

\* C3: a search whose pattern holds a symbol that is not in x, at any
\* place of the pattern, ends normally right after the mapping: no offset
\* yielded, no error, no table lookup made.
C3_UnknownSymbol ==
    \A c \in Calls :
        (Started(c) /\ ~Mapped(c)) =>
            /\ pc[c] = "done"
            /\ out[c] = <<>>
            /\ lookups[c] = 0

C3_Witness ==
    /\ pc[1] = "done"
    /\ Len(pat[1]) >= 2
    /\ pat[1][1] \notin Range(x)
    /\ pat[1][Len(pat[1])] \in Range(x)
    /\ out[1] = <<>>

\* C4: the transformed sequence has length n = len(x) + 1 and holds, at
\* each i, mapped[(sa[i] - 1) mod n]; the slot whose suffix starts at
\* offset 0 holds the sentinel, which occurs exactly once.
C4_Transform ==
    build # "none" =>
        LET x_ == MappedStringWithSentinel(x)
            s  == SaisAlphabet(x_)
            n  == Len(x) + 1
        IN  /\ Len(bwt) = n
            /\ \A i \in 0..(n - 1) : bwt[i + 1] = x_[((s[i + 1] - 1) % n) + 1]
            /\ \A i \in 0..(n - 1) : s[i + 1] = 0 => bwt[i + 1] = 0
            /\ Cardinality({i \in 1..n : bwt[i] = 0}) = 1

C4_Witness ==
    /\ build = "ok"
    /\ Len(x) >= 3
    /\ Cardinality(Range(x)) >= 2
    /\ bwt[1] # 0
    /\ \E i \in 2..Len(bwt) : bwt[i] = 0 /\ sa[i] = 0

C6_CTableCounts ==
    tct # <<>> =>
        /\ \A a \in 0..(tk - 1) :
            CTableGet(tct, a) = <<"ok", Cardinality({j \in 1..Len(ts) : ts[j] < a})>>
        /\ CTableGet(tct, 0) = <<"ok", 0>>
        /\ \A a \in 0..(tk - 2) : CTableGet(tct, a)[2] <= CTableGet(tct, a + 1)[2]

C6_Witness ==
    /\ tct # <<>>
    /\ tk >= 3
    /\ Cardinality(Range(ts)) >= 2
    /\ tct[tk] > tct[2]
    /\ tct[2] > 0

\* C7: a C-table query with a code outside [0, k), above or below, ends
\* in an error; it never returns the count of an entry in range.
C7_OutOfRangeQuery ==
    (tq.kind = "ctab" /\ (tq.a < 0 \/ tq.a >= tk)) => tq.res[1] # "ok"

\* C8 (state part): what a search has yielded is sa[left], sa[left + 1],
\* ... in ascending suffix-array index, each index once, up to the index
\* the walk stands at, and all of [left, right) once it has returned; two
\* finished searches of one pattern on one bundle agree on the bounds and
\* on the sequence yielded.
C8_Order ==
    /\ \A c \in Calls :
        /\ pc[c] = "emit" =>
            /\ left[c] <= idx[c] /\ idx[c] <= right[c]
            /\ out[c] = [k \in 1..(idx[c] - left[c]) |-> sa[left[c] + k]]
        /\ (pc[c] = "done" /\ left[c] < right[c]) =>
            out[c] = [k \in 1..(right[c] - left[c]) |-> sa[left[c] + k]]
    /\ \A c, d \in Calls :
        (pc[c] = "done" /\ pc[d] = "done" /\ pat[c] = pat[d]) =>
            /\ left[c] = left[d]
            /\ right[c] = right[d]
            /\ out[c] = out[d]

\* C8: the order and the determinism above hold in every state, and every
\* step adds at most one offset, at the end of what a call has yielded.
C8_EmissionOrder ==
    /\ []C8_Order
    /\ [][\A c \in Calls :
            \/ out'[c] = out[c]
            \/ /\ Len(out'[c]) = Len(out[c]) + 1
               /\ IsPrefix(out[c], out'[c])]_vars

C8_Witness ==
    /\ pc[1] = "done"
    /\ pc[2] = "done"
    /\ pat[1] = pat[2]
    /\ Len(out[1]) >= 2
    /\ out[1][1] > out[1][2]
    /\ out[1] = out[2]

\* C9 (state part): under any interleaving, what a call has yielded is a
\* prefix of what the same search yields run alone, and all of it once the
\* call has ended.
C9_AsAlone ==
    \A c \in Calls :
        Started(c) =>
            /\ IsPrefix(out[c], SoloSearch(alpha, sa, ctab, otab, pat[c]))
            /\ pc[c] = "done" => out[c] = SoloSearch(alpha, sa, ctab, otab, pat[c])

\* C9: once the bundle is built no step of any search changes it, and
\* every call yields what it yields alone.
C9_BundleReadOnly ==
    /\ [][build = "ok" => bundle' = bundle]_vars
    /\ []C9_AsAlone

C9_Witness ==
    /\ pc[1] = "emit"
    /\ pc[2] = "emit"
    /\ pat[1] # pat[2]
    /\ left[1] < idx[1] /\ idx[1] < right[1]
    /\ left[2] < idx[2] /\ idx[2] < right[2]

\* C10: for a non-empty x and a mapped pattern, before the first step and
\* after every step 0 <= left <= right <= n; while the search has not
\* stopped, [left, right) is non-empty and is exactly the set of
\* suffix-array indices whose suffix starts with the part of the pattern
\* consumed so far; a search stopped by an empty interval has yielded
\* nothing, and no suffix starts with the part consumed.
C10_LoopInvariant ==
    \A c \in Calls :
        (Started(c) /\ Mapped(c)) =>
            LET n  == Len(x) + 1
                x_ == MappedStringWithSentinel(x)
                q  == SubSeq(p[c], rem[c] + 1, Len(p[c]))
                matching == {i \in 0..(n - 1) : StartsWith(x_, sa[i + 1], q)}
            IN  /\ pc[c] # "raised"
                /\ 0 <= left[c] /\ left[c] <= right[c] /\ right[c] <= n
                /\ pc[c] \in {"loop", "emit"} =>
                    /\ left[c] < right[c]
                    /\ {i \in 0..(n - 1) : left[c] <= i /\ i < right[c]} = matching
                /\ (pc[c] = "done" /\ left[c] >= right[c]) =>
                    /\ out[c] = <<>>
                    /\ matching = {}

C10_Witness ==
    /\ pc[1] = "loop"
    /\ 0 < rem[1]
    /\ rem[1] < Len(p[1])
    /\ right[1] - left[1] >= 2
    /\ left[1] > 0

====
